---- MODULE Spec2Model ----
(***************************************************************************)
(* vite-plugin-lit-hmr: the injected runtime (window.__LIT_HMR_REGISTRY__, *)
(* window.__litHmrDefine, the update-acceptance hook and the finalize       *)
(* step patchPrivateAccessors) together with the part of the rewriter that *)
(* captures the Property Snapshots of a unit.                              *)
(*                                                                         *)
(* One action is one synchronous piece of JavaScript: the evaluation of a  *)
(* rewritten unit, the construction or teardown of an element, a user      *)
(* interaction writing a reactive field, the acceptance hook.              *)
(***************************************************************************)
EXTENDS Integers, Sequences, FiniteSets, TLC

VARIABLES
    LIT_HMR_REGISTRY,   \* window.__LIT_HMR_REGISTRY__ : <<>> (undefined) or <<[id, map]>>
    litHmrDefine,       \* window.__litHmrDefine : <<>> (undefined) or <<id of the defining evaluation>>
    propsAndState,      \* window.__propsAndState__ : sequence of Property Snapshots
    customElements,     \* platform registry: tag name -> number of define() calls received
    elements,           \* every element ever constructed, in construction order
    NEEDS_RELOAD,       \* window.__LIT_HMR_NEEDS_RELOAD__
    RELOAD_REASON,      \* window.__LIT_HMR_RELOAD_REASON__
    invalidated,        \* number of full reloads requested from the host (import.meta.hot.invalidate)
    hot,                \* units whose accept callback is registered (evaluated at least once)
    pendingAccept,      \* units re-evaluated whose accept callback has not run yet
    evals,              \* number of unit evaluations so far
    call,               \* what the last step did (observation of the last action)
    DEFINE_RE,          \* DEFINE_RE.lastIndex (module-level /g regex of the plugin process)
    DECORATOR_RE,       \* DECORATOR_RE.lastIndex (module-level /g regex of the plugin process)
    transformed,        \* the last transform call of the plugin process and its result
    evaluated           \* what the browser did with the last unit litHmrPost.transform returned

runtimeVars == <<LIT_HMR_REGISTRY, litHmrDefine, propsAndState, customElements, elements,
                 NEEDS_RELOAD, RELOAD_REASON, invalidated, hot, pendingAccept, evals, call>>
rewriterVars == <<DEFINE_RE, DECORATOR_RE, transformed, evaluated>>
vars == <<runtimeVars, rewriterVars>>

(***************************************************************************)
(* Bounds                                                                  *)
(***************************************************************************)
MaxEvals == 3

\* The elements the document creates, named by their construction order.
ElementIds == 1..2

(***************************************************************************)
(* JavaScript values that reach a reactive field                           *)
(***************************************************************************)
JsNumber(n) == [type |-> "number", v |-> n]
JsUndefined == [type |-> "undefined", v |-> 0]

Digits == <<"0", "1", "2", "3", "4", "5", "6", "7", "8", "9">>
IsDigit(c) == \E d \in 1..10 : Digits[d] = c
DigitValue(c) == (CHOOSE d \in 1..10 : Digits[d] = c) - 1

RECURSIVE ParseDecimal(_, _)
ParseDecimal(text, acc) ==
    IF text = <<>> THEN acc
    ELSE ParseDecimal(Tail(text), acc * 10 + DigitValue(Head(text)))

\* eval(valueMatch[1]) inside try/catch: a decimal literal evaluates to its
\* number; any other text of the model is an identifier that is not in scope
\* of the plugin process, eval throws and value stays undefined.
EvalInitializer(text) ==
    IF text # <<>> /\ \A k \in 1..Len(text) : IsDigit(text[k])
    THEN JsNumber(ParseDecimal(text, 0))
    ELSE JsUndefined

(***************************************************************************)
(* Units of source text                                                    *)
(*                                                                         *)
(* A version of a unit is what the text declares: the reactive fields in   *)
(* text order and the one registered class.                                *)
(*   field: [decorator, owner, name, typed, init]                          *)
(*     owner  "element" = the registered class, "helper" = another class   *)
(*            of the same unit (a base class or mixin that is not          *)
(*            registered)                                                  *)
(*     typed  the declaration carries a TypeScript type annotation         *)
(*            (name: T = init)                                             *)
(*     init   <<>> (no initializer) or <<text>>                            *)
(***************************************************************************)
Field(decorator, owner, name, typed, init) ==
    [decorator |-> decorator, owner |-> owner, name |-> name, typed |-> typed, init |-> init]

Version(render, disc, ctor, attrs, fields) ==
    [render |-> render, disc |-> disc, ctor |-> ctor, attrs |-> attrs, fields |-> fields,
     styles |-> "styles1", locked |-> FALSE]

\* The same unit with its static styles edited.
Restyled(version, styles) == [version EXCEPT !.styles = styles]

\* The same unit with a symbol-keyed prototype property added by
\* Object.defineProperty(Class.prototype, key, { value }): a data property
\* that is neither configurable nor writable.
Locked(version) == [version EXCEPT !.locked = TRUE]

Lit42 == <<"4", "2">>
Count42 == Field("property", "element", "count", FALSE, <<Lit42>>)

\* The edits of a unit the model draws from: method bodies only (render,
\* a lifecycle hook), constructor logic, reactive schema, observed
\* attributes, and the shapes of a reactive-field declaration.
Versions ==
    { Version("render1", FALSE, "ctor1", {}, <<Count42>>),
      Version("render2", FALSE, "ctor1", {}, <<Count42>>),
      Version("render1", TRUE, "ctor1", {}, <<Count42>>),
      Version("render1", FALSE, "ctor1", {"label"}, <<Count42>>),
      Version("render1", FALSE, "ctor2", {},
              <<Count42, Field("state", "element", "step", FALSE, <<>>)>>),
      Version("render1", FALSE, "ctor1", {},
              <<Field("property", "element", "count", TRUE, <<Lit42>>)>>) }

Units == {"counter-element.ts", "custom-counter.ts"}
TagNameOf(unit) == IF unit = "counter-element.ts" THEN "counter-element" ELSE "custom-counter"
TagNames == {TagNameOf(u) : u \in Units}

\* The versions each unit is edited through.
VersionsOf(unit) ==
    IF unit = "counter-element.ts" THEN Versions
    ELSE { Version("render1", FALSE, "ctor1", {}, <<Count42>>) }

\* The edits that exercise the patch loop: method bodies, a lifecycle hook,
\* static styles and a non-configurable prototype property.
PatchVersions ==
    { Version("render1", FALSE, "ctor1", {}, <<Count42>>),
      Version("render2", FALSE, "ctor1", {}, <<Count42>>),
      Version("render1", TRUE, "ctor1", {}, <<Count42>>),
      Restyled(Version("render1", FALSE, "ctor1", {}, <<Count42>>), "styles2"),
      Locked(Version("render1", FALSE, "ctor1", {}, <<Count42>>)) }

PatchVersionsOf(unit) ==
    IF unit = "counter-element.ts" THEN PatchVersions
    ELSE { Version("render1", FALSE, "ctor1", {}, <<Count42>>) }

(***************************************************************************)
(* litHmr.transform: the Property Snapshots of a unit (index.ts 265-301)   *)
(***************************************************************************)
RECURSIVE FormatDecimal(_)
FormatDecimal(n) ==
    IF n < 10 THEN <<Digits[n + 1]>>
    ELSE FormatDecimal(n \div 10) \o <<Digits[(n % 10) + 1]>>

\* The positions, in text order, of the declarations a decorator regex
\* (PROP_RE, STATE_RE) matches.
DecoratorMatches(fields, decorator) ==
    SelectSeq([k \in 1..Len(fields) |-> k], LAMBDA k : fields[k].decorator = decorator)

\* A value regex that never matches.
ValueMatchNever(fields, k) == <<>>

\* code.slice(match.index).match(/@decorator(..) name\s*=\s*([^;\n]+)/): the
\* first declaration at or after the match with this decorator and name that
\* is directly followed by "= value". A type annotation (name: T = value)
\* separates the name from "=", so such a declaration is not found.
ValueMatch(fields, k) ==
    LET hits == { j \in k..Len(fields) :
                     /\ fields[j].decorator = fields[k].decorator
                     /\ fields[j].name = fields[k].name
                     /\ ~fields[j].typed
                     /\ fields[j].init # <<>> }
    IN IF hits = {} THEN <<>>
       ELSE <<fields[CHOOSE j \in hits : \A i \in hits : j <= i].init[1]>>

SnapshotOf(fields, k) ==
    LET valueMatch == ValueMatch(fields, k)
        value == IF valueMatch = <<>> THEN JsUndefined ELSE EvalInitializer(valueMatch[1])
    IN [type |-> value.type, name |-> fields[k].name, value |-> value]

\* propsAndState as the rewriter collects it: every @property match first,
\* then every @state match.
CollectPropsAndState(fields) ==
    LET order == DecoratorMatches(fields, "property") \o DecoratorMatches(fields, "state")
    IN [n \in 1..Len(order) |-> SnapshotOf(fields, order[n])]

\* JSON.stringify(propsAndState) at rewrite time, parsed again when the
\* bootstrap is evaluated: a number is written in decimal and read back, an
\* undefined value is dropped and reads as undefined.
JsonRoundTrip(snapshots) ==
    [n \in 1..Len(snapshots) |->
        [type |-> snapshots[n].type,
         name |-> snapshots[n].name,
         value |-> IF snapshots[n].value.type = "number"
                   THEN JsNumber(ParseDecimal(FormatDecimal(snapshots[n].value.v), 0))
                   ELSE JsUndefined]]

(***************************************************************************)
(* The class a unit's evaluation creates                                   *)
(***************************************************************************)
ElementFields(version) ==
    { k \in 1..Len(version.fields) : version.fields[k].owner = "element" }

ElementClassOf(version) ==
    [render |-> version.render,
     disc |-> version.disc,
     ctor |-> version.ctor,
     styles |-> version.styles,
     locked |-> version.locked,
     observedAttributes |-> version.attrs,
     elementProperties |-> { version.fields[k].name : k \in ElementFields(version) },
     initial |-> [name \in { version.fields[k].name : k \in ElementFields(version) } |->
                    LET k == CHOOSE k \in ElementFields(version) : version.fields[k].name = name
                    IN IF version.fields[k].init = <<>> THEN JsUndefined
                       ELSE EvalInitializer(version.fields[k].init[1])]]

DataDescriptor(name, home) ==
    [get |-> FALSE, set |-> FALSE, value |-> [fn |-> name, home |-> home], configurable |-> TRUE]
AccessorDescriptor(name, home) ==
    [get |-> TRUE, set |-> TRUE, value |-> [fn |-> name, home |-> home], configurable |-> TRUE]
LockedDescriptor(name, home) ==
    [get |-> FALSE, set |-> FALSE, value |-> [fn |-> name, home |-> home], configurable |-> FALSE]

SymbolKey == "Symbol(locked)"

\* Own properties of ElementClass.prototype: the constructor slot, render,
\* one accessor per reactive field, the lifecycle hook when declared, the
\* symbol-keyed property when defined.
PrototypeKeys(cls) ==
    {"constructor", "render"} \cup cls.elementProperties
        \cup (IF cls.disc THEN {"disconnectedCallback"} ELSE {})
        \cup (IF cls.locked THEN {SymbolKey} ELSE {})

PrototypeOf(cls) ==
    [key \in PrototypeKeys(cls) |->
        IF key \in cls.elementProperties THEN AccessorDescriptor(key, "delegate")
        ELSE IF key = "render" THEN DataDescriptor(cls.render, "delegate")
        ELSE IF key = SymbolKey THEN LockedDescriptor(key, "delegate")
        ELSE DataDescriptor(key, "delegate")]

\* Reflect.ownKeys(proto): string keys in creation order, then symbol keys.
KeyOrder == <<"constructor", "count", "step", "render", "disconnectedCallback", SymbolKey>>
OwnKeys(proto) == SelectSeq(KeyOrder, LAMBDA key : key \in DOMAIN proto)

(***************************************************************************)
(* HMR_RUNTIME: the bootstrap and window.__litHmrDefine (index.ts 61-141)  *)
(***************************************************************************)
\* A bootstrap that assigns with "=" where the code has "??=".
BootstrapRegistryAssign(registry, id) ==
    <<[id |-> id, map |-> <<>>]>>

\* window.__LIT_HMR_REGISTRY__ ??= new Map()
BootstrapRegistry(registry, id) ==
    IF registry = <<>> THEN <<[id |-> id, map |-> <<>>]>> ELSE registry

\* window.__litHmrDefine ??= function(tagName, ElementClass, moduleUrl, deps) {...}
BootstrapDefine(define, id) ==
    IF define = <<>> THEN <<id>> ELSE define

\* The Map as a sequence of records in insertion order, keyed by tagName.
RegistryHas(map, tagName) == \E n \in 1..Len(map) : map[n].tagName = tagName
RegistryGet(map, tagName) == map[CHOOSE n \in 1..Len(map) : map[n].tagName = tagName]
\* A Map.set that writes the first entry whatever its key.
RegistrySetFirst(map, record) ==
    IF map = <<>> THEN <<record>>
    ELSE [n \in 1..Len(map) |-> IF n = 1 THEN record ELSE map[n]]

RegistrySet(map, record) ==
    IF RegistryHas(map, record.tagName)
    THEN [n \in 1..Len(map) |-> IF map[n].tagName = record.tagName THEN record ELSE map[n]]
    ELSE Append(map, record)

\* class HmrProxyElement extends ElementClass { constructor; disconnectedCallback }
HmrProxyElement(ElementClass) ==
    [extends |-> ElementClass,
     prototype |-> [key \in {"constructor", "disconnectedCallback"} |->
                        DataDescriptor("HmrProxyElement", "proxy")]]

\* The record of a first registration (index.ts 77-99).
NewRecord(tagName, ElementClass) ==
    [elementClass |-> ElementClass,
     tagName |-> tagName,
     instances |-> <<>>,
     proxyClass |-> HmrProxyElement(ElementClass)]

\* A patch loop without the accessor test.
PatchedKeysWithAccessors(newProto) ==
    { key \in DOMAIN newProto : key # "constructor" }

\* The keys the patch loop copies (index.ts 113-120): every own key of the
\* new prototype but the constructor slot and the accessors.
PatchedKeys(newProto) ==
    { key \in DOMAIN newProto :
        key # "constructor" /\ ~(newProto[key].get \/ newProto[key].set) }

\* Object.defineProperty(oldProto, key, desc) throws a TypeError when
\* oldProto has an own non-configurable, non-writable data property key and
\* desc holds another value: the function object of a new evaluation is
\* never the one stored before.
DefinePropertyFails(oldProto, key) ==
    key \in DOMAIN oldProto /\ ~oldProto[key].configurable

\* try { Object.defineProperty(oldProto, key, desc) } catch (err) { warn }
\* for every patched key (index.ts 113-127): a key whose defineProperty
\* throws keeps its old descriptor, the loop goes on.
PatchPrototype(oldProto, newProto) ==
    [key \in DOMAIN oldProto \cup PatchedKeys(newProto) |->
        IF key \in PatchedKeys(newProto) /\ ~DefinePropertyFails(oldProto, key)
        THEN newProto[key] ELSE oldProto[key]]

\* existing.instances.forEach(instance => instance.requestUpdate()) with no
\* try/catch (index.ts 129-134): the elements asked, in insertion order, up
\* to and including the first whose requestUpdate raises.
Asked(instances, failing) ==
    LET bad == { n \in 1..Len(instances) : instances[n] \in failing }
    IN IF bad = {} THEN instances
       ELSE SubSeq(instances, 1, CHOOSE n \in bad : \A m \in bad : n <= m)

Raises(instances, failing) == \E n \in 1..Len(instances) : instances[n] \in failing

\* An else branch without the store of the class reference.
HotUpdateKeepsClass(existing, ElementClass, failing) ==
    [existing EXCEPT !.proxyClass.prototype = PatchPrototype(@, PrototypeOf(ElementClass))]

\* The else branch of __litHmrDefine (index.ts 103-139): patch, propagate,
\* and, unless a requestUpdate raised, store the class reference.
HotUpdate(existing, ElementClass, failing) ==
    LET patched == [existing EXCEPT !.proxyClass.prototype =
                        PatchPrototype(@, PrototypeOf(ElementClass))]
    IN IF Raises(existing.instances, failing) THEN patched
       ELSE [patched EXCEPT !.elementClass = ElementClass]

\* What one call of the else branch does, in the order the code does it
\* (index.ts 113-138): one defineProperty per patched key, one requestUpdate
\* per instance up to the first that raises, the store of the class
\* reference when none raised.
Event(op, key, instance, ok) == [op |-> op, key |-> key, instance |-> instance, ok |-> ok]

PatchEvents(oldProto, newProto) ==
    LET keys == SelectSeq(OwnKeys(newProto), LAMBDA key : key \in PatchedKeys(newProto))
    IN [n \in 1..Len(keys) |->
          Event("defineProperty", keys[n], 0, ~DefinePropertyFails(oldProto, keys[n]))]

RequestEvents(instances, failing) ==
    LET asked == Asked(instances, failing)
    IN [n \in 1..Len(asked) |-> Event("requestUpdate", "", asked[n], asked[n] \notin failing)]

\* An else branch that propagates before it patches.
UpdateLogPropagateFirst(existing, ElementClass, failing) ==
    RequestEvents(existing.instances, failing)
        \o PatchEvents(existing.proxyClass.prototype, PrototypeOf(ElementClass))
        \o (IF Raises(existing.instances, failing) THEN <<>>
            ELSE <<Event("elementClass", "", 0, TRUE)>>)

UpdateLog(existing, ElementClass, failing) ==
    PatchEvents(existing.proxyClass.prototype, PrototypeOf(ElementClass))
        \o RequestEvents(existing.instances, failing)
        \o (IF Raises(existing.instances, failing) THEN <<>>
            ELSE <<Event("elementClass", "", 0, TRUE)>>)

\* window.__LIT_HMR_NEEDS_RELOAD__ / __LIT_HMR_RELOAD_REASON__ after a call
\* of __litHmrDefine: no line of the function assigns them.
FlagsAfterDefine(flags, old, new) == flags

\* A define that binds outside the first-registration branch.
BindCallsEveryCall(map, tagName) == 1

\* The calls of customElements.define a call of __litHmrDefine makes.
BindCalls(map, tagName) == IF RegistryHas(map, tagName) THEN 0 ELSE 1

\* A call that makes a new record on every registration.
LitHmrDefineNewRecord(map, tagName, ElementClass, failing) ==
    RegistrySet(map, NewRecord(tagName, ElementClass))

\* window.__litHmrDefine(tagName, ElementClass, moduleUrl) on the Map.
LitHmrDefine(map, tagName, ElementClass, failing) ==
    IF ~RegistryHas(map, tagName)
    THEN RegistrySet(map, NewRecord(tagName, ElementClass))
    ELSE RegistrySet(map, HotUpdate(RegistryGet(map, tagName), ElementClass, failing))

(***************************************************************************)
(* HMR_POST_RUNTIME: the finalize step (index.ts 343-380)                  *)
(***************************************************************************)
Range(seq) == { seq[n] : n \in 1..Len(seq) }

\* window.__propsAndState__.find(p => p.name === key): <<>> or <<propInfo>>
FindPropInfo(snapshots, key) ==
    LET hits == { n \in 1..Len(snapshots) : snapshots[n].name = key }
    IN IF hits = {} THEN <<>>
       ELSE <<snapshots[CHOOSE n \in hits : \A m \in hits : n <= m]>>

\* The own accessor keys of existing.elementClass.prototype that have a
\* Property Snapshot (index.ts 353-359).
FinalizedKeys(existing, snapshots) ==
    { key \in DOMAIN PrototypeOf(existing.elementClass) :
        /\ key # "constructor"
        /\ (PrototypeOf(existing.elementClass)[key].get
               \/ PrototypeOf(existing.elementClass)[key].set)
        /\ FindPropInfo(snapshots, key) # <<>> }

\* instance[key] = propInfo.value for every finalized key (index.ts 366).
WriteSnapshots(element, keys, snapshots) ==
    [element EXCEPT !.values =
        [key \in DOMAIN element.values \cup keys |->
            IF key \in keys THEN FindPropInfo(snapshots, key)[1].value
            ELSE element.values[key]]]

\* A finalize step that writes every element of the page.
PatchPrivateAccessorsEveryElement(map, tagName, snapshots, els) ==
    IF ~RegistryHas(map, tagName) THEN els
    ELSE [e \in 1..Len(els) |->
            WriteSnapshots(els[e], FinalizedKeys(RegistryGet(map, tagName), snapshots), snapshots)]

\* patchPrivateAccessors() for tagName: every tracked instance is written.
PatchPrivateAccessors(map, tagName, snapshots, els) ==
    IF ~RegistryHas(map, tagName) THEN els
    ELSE LET existing == RegistryGet(map, tagName)
         IN [e \in 1..Len(els) |->
                IF e \in Range(existing.instances)
                THEN WriteSnapshots(els[e], FinalizedKeys(existing, snapshots), snapshots)
                ELSE els[e]]

(***************************************************************************)
(* hmrCode: the update-acceptance hook (index.ts 311-327)                  *)
(***************************************************************************)
Flags(needs, reason) == [needsReload |-> needs, reason |-> reason]

\* A callback that leaves the flags as it found them.
AcceptFlagsKeep(flags) == flags

\* The flags after the callback: cleared when the flag was set.
AcceptFlags(flags) ==
    IF flags.needsReload THEN Flags(FALSE, "") ELSE flags

\* The full reloads the callback requests: import.meta.hot.invalidate(reason)
\* is commented out (index.ts 321), the set branch only warns on the console.
AcceptInvalidations(flags) ==
    IF flags.needsReload THEN 0 ELSE 0

(***************************************************************************)
(* The rewriters: isLitFile, litHmr.transform, litHmrPost.transform        *)
(*                                                                         *)
(* A unit's text is a sequence of tokens, each the smallest piece of text  *)
(* one of the plugin's regexes or its brace scan tells apart; an offset is *)
(* a number of tokens. token: [kind, tag, cls]                             *)
(***************************************************************************)
Tok(kind, tag, cls) == [kind |-> kind, tag |-> tag, cls |-> cls]

ImportLit == Tok("import", "", "")             \* import ... from 'lit'
Text == Tok("text", "", "")                    \* any other text
Decorator(tag) == Tok("decorator", tag, "")    \* @customElement('tag')
ExportClass(cls) == Tok("export class", "", cls)
Class(cls) == Tok("class", "", cls)            \* a class that is not exported
Open == Tok("{", "", "")
Close == Tok("}", "", "")
StringOpen == Tok("string{", "", "")           \* a string literal holding '{'
StringClose == Tok("string}", "", "")          \* a string literal holding '}'
DefineCall(tag, cls) == Tok("define", tag, cls)    \* customElements.define('tag', cls)
AccessCheck == Tok("accessCheck", "", "")      \* var __accessCheck = (obj, member, msg) => ...
\* what the rewriters write
Marker(tag) == Tok("marker", tag, "")          \* /* @customElement('tag') removed by lit-hmr */
Registration(tag, cls) == Tok("call", tag, cls)    \* window.__litHmrDefine("tag", cls, id)
\* the inserted statement: \nwindow.__litHmrDefine("tag", cls, id);\n
RegistrationStatement(tag, cls) == Tok("statement", tag, cls)
Runtime == Tok("runtime", "", "")              \* HMR_RUNTIME(propsAndState)
HmrCode == Tok("hmrCode", "", "")
AccessCheckPatched == Tok("accessCheckPatched", "", "")
PostRuntime(tag) == Tok("postRuntime", tag, "")    \* HMR_POST_RUNTIME(tag)

\* The token kinds each pattern matches. The marker comment still holds the
\* text @customElement('tag').
DefineKinds == {"define"}
DecoratorKinds == {"decorator", "marker"}
OpenKinds == {"{", "string{"}
CloseKinds == {"}", "string}"}

Matches(code, kinds) == { k \in 1..Len(code) : code[k].kind \in kinds }
Least(set) == CHOOSE k \in set : \A j \in set : k <= j
Ordered(code, set) == SelectSeq([k \in 1..Len(code) |-> k], LAMBDA k : k \in set)

\* RegExp.prototype.test of a /g regex: the search starts at lastIndex; a
\* match leaves lastIndex at its end, a failure leaves 0.
Test(code, kinds, lastIndex) ==
    LET hits == { k \in Matches(code, kinds) : k - 1 >= lastIndex }
    IN [found |-> hits # {}, lastIndex |-> IF hits = {} THEN 0 ELSE Least(hits)]

\* isLitFile (index.ts 44-52): a short-circuit || over the two shared regexes
\* and the three includes().
IsLitFile(code, define_re, decorator_re) ==
    LET d == Test(code, DefineKinds, define_re)
        c == Test(code, DecoratorKinds, decorator_re)
    IN IF d.found
       THEN [result |-> TRUE, DEFINE_RE |-> d.lastIndex, DECORATOR_RE |-> decorator_re]
       ELSE IF c.found
       THEN [result |-> TRUE, DEFINE_RE |-> 0, DECORATOR_RE |-> c.lastIndex]
       ELSE [result |-> Matches(code, {"import"}) # {}, DEFINE_RE |-> 0, DECORATOR_RE |-> 0]

\* id.includes("node_modules")
NodeModulesId == "/node_modules/lit/index.js"
UnitId == "/src/counter-element.ts"
OtherUnitId == "/src/custom-counter.ts"
Ids == {UnitId, OtherUnitId, NodeModulesId}
IncludesNodeModules(id) == id = NodeModulesId

\* afterDecorator.match(/export\s+class\s+(name)/): the first exported class
\* after the decorator that ends at offset decoratorEnd; 0 when none.
ClassMatch(code, decoratorEnd) ==
    LET hits == { k \in Matches(code, {"export class"}) : k > decoratorEnd }
    IN IF hits = {} THEN 0 ELSE Least(hits)

\* code.indexOf('{', classStart), as a token index; 0 when none.
ClassBodyStart(code, classMatch) ==
    LET hits == { j \in Matches(code, OpenKinds) : j >= classMatch }
    IN IF hits = {} THEN 0 ELSE Least(hits)

\* The brace scan (index.ts 245-256) from offset pos with braceCount open
\* braces: the offset after the character that brings the count to zero, or
\* 0 when the text ends first. Every '{' and '}' character counts.
RECURSIVE Scan(_, _, _)
Scan(code, pos, braceCount) ==
    IF braceCount = 0 THEN pos
    ELSE IF pos >= Len(code) THEN 0
    ELSE Scan(code, pos + 1,
              IF code[pos + 1].kind \in OpenKinds THEN braceCount + 1
              ELSE IF code[pos + 1].kind \in CloseKinds THEN braceCount - 1
              ELSE braceCount)

\* A scan that takes the end of the text for the end of the class.
InsertionPointOrEnd(code, d) ==
    IF ClassMatch(code, d) = 0 \/ ClassBodyStart(code, ClassMatch(code, d)) = 0 THEN 0
    ELSE IF Scan(code, ClassBodyStart(code, ClassMatch(code, d)), 1) = 0 THEN Len(code)
    ELSE Scan(code, ClassBodyStart(code, ClassMatch(code, d)), 1)

\* The offset at which s.appendLeft(pos, registrationCode) inserts for the
\* decorator match at token d; 0 when nothing is inserted (index.ts 223-258).
InsertionPoint(code, d) ==
    IF ClassMatch(code, d) = 0 \/ ClassBodyStart(code, ClassMatch(code, d)) = 0 THEN 0
    ELSE Scan(code, ClassBodyStart(code, ClassMatch(code, d)), 1)

\* registrationCode of the decorator match at d (index.ts 235).
RegistrationCode(code, d) == RegistrationStatement(code[d].tag, code[ClassMatch(code, d)].cls)

\* What appendLeft has put at offset pos, in the order of decoratorMatches.
Inserted(code, pos) ==
    LET ds == Ordered(code, { d \in Matches(code, DecoratorKinds) : InsertionPoint(code, d) = pos })
    IN [n \in 1..Len(ds) |-> RegistrationCode(code, ds[n])]

\* s.overwrite of the two match loops (index.ts 190-220).
Overwritten(code, k) ==
    IF code[k].kind \in DefineKinds THEN Registration(code[k].tag, code[k].cls)
    ELSE IF code[k].kind \in DecoratorKinds THEN Marker(code[k].tag)
    ELSE code[k]

\* A transform that goes on without a match.
HasTransformsAlways(code) == TRUE

HasTransforms(code) == Matches(code, DefineKinds \cup DecoratorKinds) # {}

RECURSIVE Body(_, _)
Body(code, k) ==
    IF k > Len(code) THEN <<>>
    ELSE <<Overwritten(code, k)>> \o Inserted(code, k) \o Body(code, k + 1)

\* s.toString() after prepend and append (index.ts 308-332).
Rewritten(code) == <<Runtime>> \o Body(code, 1) \o <<HmrCode>>

\* litHmr.transform(code, id) (index.ts 151-335) on the shared regexes:
\* result <<>> is null.
LitHmrTransform(code, id, define_re, decorator_re) ==
    IF IncludesNodeModules(id)
    THEN [result |-> <<>>, DEFINE_RE |-> define_re, DECORATOR_RE |-> decorator_re]
    ELSE LET lit == IsLitFile(code, define_re, decorator_re)
         IN IF ~lit.result
            THEN [result |-> <<>>, DEFINE_RE |-> lit.DEFINE_RE, DECORATOR_RE |-> lit.DECORATOR_RE]
            ELSE [result |-> IF HasTransforms(code) THEN <<Rewritten(code)>> ELSE <<>>,
                  DEFINE_RE |-> 0, DECORATOR_RE |-> 0]

\* litHmrPost.transform(code, id) (index.ts 390-434): isLitFile with no
\* reset of lastIndex after it.
LitHmrPostTransform(code, id, define_re, decorator_re) ==
    IF IncludesNodeModules(id)
    THEN [result |-> <<>>, DEFINE_RE |-> define_re, DECORATOR_RE |-> decorator_re]
    ELSE LET lit == IsLitFile(code, define_re, decorator_re)
             access == Matches(code, {"accessCheck"})
             tagNames == Ordered(code, Matches(code, {"call", "statement"}))
             patched == [k \in 1..Len(code) |->
                            IF access # {} /\ k = Least(access) THEN AccessCheckPatched
                            ELSE code[k]]
         IN [result |-> IF lit.result /\ (access # {} \/ Len(tagNames) > 0)
                        THEN <<patched \o [n \in 1..Len(tagNames) |->
                                              PostRuntime(code[tagNames[n]].tag)]>>
                        ELSE <<>>,
             DEFINE_RE |-> lit.DEFINE_RE, DECORATOR_RE |-> lit.DECORATOR_RE]

(***************************************************************************)
(* Elements                                                                *)
(***************************************************************************)
\* new HmrProxyElement(): super() runs the constructor and the field
\* initializers of the class the proxy extends (index.ts 83-87).
ConstructedElement(record) ==
    [tagName |-> record.tagName,
     values |-> record.proxyClass.extends.initial,
     ctor |-> record.proxyClass.extends.ctor,
     touched |-> FALSE,
     torn |-> FALSE,
     reattached |-> FALSE]

\* A static member read on the proxy class: HmrProxyElement declares no
\* static of its own and no line of __litHmrDefine assigns one, so the read
\* resolves on the class it extends.
StaticKeys == {"styles", "elementProperties", "observedAttributes"}
StaticsOf(cls) == [key \in StaticKeys |-> cls[key]]
ProxyStatics(proxyClass) == StaticsOf(proxyClass.extends)

\* record.instances.add(this)
SetAdd(instances, e) == IF e \in Range(instances) THEN instances ELSE Append(instances, e)

\* record.instances.delete(this)
SetDelete(instances, e) == SelectSeq(instances, LAMBDA x : x # e)

\* instance.disconnectedCallback() resolved on the proxy prototype: the
\* proxy's own method deletes the instance (index.ts 89-94); a delegate's
\* method copied over it by the patch loop does not.
DisconnectedCallback(record, e) ==
    IF record.proxyClass.prototype["disconnectedCallback"].value.fn = "HmrProxyElement"
    THEN [record EXCEPT !.instances = SetDelete(@, e)]
    ELSE record

UserValues == {JsNumber(5)}

\* The observation of a step that is no unit evaluation. For an evaluation:
\* the tag registered, the version evaluated, whether the call took the
\* update branch, the elements whose requestUpdate it invoked and whether one
\* of them raised.
NoCall == [op |-> "none", tagName |-> "", version |-> <<>>, update |-> FALSE, asked |-> {},
           threw |-> FALSE, log |-> <<>>]

\* The units the dev server hands to litHmr.transform.
Codes ==
    { <<ImportLit, Decorator("a"), ExportClass("A"), Open, Close>>,
      <<Decorator("a"), ExportClass("A"), Open, Close>>,
      <<ImportLit, Class("A"), Open, Close, DefineCall("a", "A")>>,
      <<Class("A"), Open, Close, DefineCall("a", "A")>>,
      <<ImportLit, Decorator("a"), Class("A"), Open, Close, ExportClass("B"), Open, Close>>,
      <<ImportLit, Decorator("a"), Class("A"), Open, Close>>,
      <<ImportLit, Decorator("a"), ExportClass("A"), Open, StringClose, Close>>,
      <<ImportLit, Decorator("a"), ExportClass("A"), Open, StringOpen, Close>>,
      <<ImportLit, Decorator("a"), ExportClass("A"), Open, Open, Close,
        Decorator("b"), ExportClass("B"), Open, Close>>,
      <<ImportLit, Decorator("a"), ExportClass("A"), Open, Close,
        Decorator("b"), ExportClass("B"), Open, Close>>,
      <<ImportLit, Text>>,
      <<Text, Text>> }

\* What litHmrPost.transform is handed: what litHmr.transform returned for
\* a unit, or the unit itself when it returned null, and a unit whose
\* accessors were lowered to private-field helpers on the way.
PostCodes ==
    { code \in Codes : LitHmrTransform(code, UnitId, 0, 0).result = <<>> }
    \cup { LitHmrTransform(code, UnitId, 0, 0).result[1] :
             code \in { c \in Codes : LitHmrTransform(c, UnitId, 0, 0).result # <<>> } }
    \cup { <<Runtime, AccessCheck, ImportLit, ExportClass("A"), Open, Close,
             RegistrationStatement("a", "A"), HmrCode>> }

NoTransform == [plugin |-> "none", code |-> <<>>, id |-> "", result |-> <<>>]

\* The finalize-patch snippets of a unit, by name, in text order.
Snippets(out) ==
    LET posts == SelectSeq(out, LAMBDA token : token.kind = "postRuntime")
    IN [n \in 1..Len(posts) |-> posts[n].tag]

\* What the host does with a unit that holds the snippets. Each snippet is
\* "function patchPrivateAccessors() { ... tagName ... }" followed by
\* "patchPrivateAccessors();" at the top level of the module (index.ts
\* 345, 379). One snippet: its function runs once. Two or more snippets
\* declare the same name twice: a module with a duplicate top-level
\* declaration is rejected before any of it runs (SyntaxError); a host that
\* loads the text with function-scope rules hoists the declarations, the
\* last one replaces the others and every call runs it.
NotEvaluated == [module |-> "none", finalized |-> <<>>]
Evaluations(out) ==
    LET names == Snippets(out)
    IN IF Len(names) <= 1
       THEN { [module |-> "evaluated", finalized |-> names] }
       ELSE { [module |-> "SyntaxError", finalized |-> <<>>],
              [module |-> "evaluated",
               finalized |-> [n \in 1..Len(names) |-> names[Len(names)]]] }

(***************************************************************************)
(* Actions                                                                 *)
(***************************************************************************)
Init ==
    /\ LIT_HMR_REGISTRY = <<>>
    /\ litHmrDefine = <<>>
    /\ propsAndState = <<>>
    /\ customElements = [t \in TagNames |-> 0]
    /\ elements = <<>>
    /\ NEEDS_RELOAD = FALSE
    /\ RELOAD_REASON = ""
    /\ invalidated = 0
    /\ hot = {}
    /\ pendingAccept = {}
    /\ evals = 0
    /\ call = NoCall
    /\ DEFINE_RE = 0
    /\ DECORATOR_RE = 0
    /\ transformed = NoTransform
    /\ evaluated = NotEvaluated

TheMap == IF LIT_HMR_REGISTRY = <<>> THEN <<>> ELSE LIT_HMR_REGISTRY[1].map

\* The evaluation of the rewritten unit: bootstrap, class declaration,
\* window.__litHmrDefine(tag, Class, id), hot.accept registration and the
\* appended patchPrivateAccessors(). A requestUpdate that raises ends the
\* evaluation at that point.
EvalUnit(unit, version, failing) ==
    /\ evals < MaxEvals
    /\ pendingAccept = {}
    /\ LET id == evals + 1
           registry == BootstrapRegistry(LIT_HMR_REGISTRY, id)
           map == registry[1].map
           tagName == TagNameOf(unit)
           ElementClass == ElementClassOf(version)
           update == RegistryHas(map, tagName)
           tracked == IF update THEN RegistryGet(map, tagName).instances ELSE <<>>
           threw == Raises(tracked, failing)
           defined == LitHmrDefine(map, tagName, ElementClass, failing)
           snapshots == JsonRoundTrip(CollectPropsAndState(version.fields))
           flags == FlagsAfterDefine(Flags(NEEDS_RELOAD, RELOAD_REASON),
                                     IF update THEN <<RegistryGet(map, tagName).elementClass>> ELSE <<>>,
                                     ElementClass)
       IN /\ failing \subseteq Range(tracked)
          /\ LIT_HMR_REGISTRY' = <<[registry[1] EXCEPT !.map = defined]>>
          /\ litHmrDefine' = BootstrapDefine(litHmrDefine, id)
          /\ propsAndState' = snapshots
          /\ customElements' = [customElements EXCEPT ![tagName] = @ + BindCalls(map, tagName)]
          /\ elements' = IF threw THEN elements
                         ELSE PatchPrivateAccessors(defined, tagName, snapshots, elements)
          /\ NEEDS_RELOAD' = flags.needsReload
          /\ RELOAD_REASON' = flags.reason
          /\ hot' = IF threw THEN hot ELSE hot \cup {unit}
          /\ pendingAccept' = IF unit \in hot /\ ~threw THEN {unit} ELSE {}
          /\ evals' = id
          /\ call' = [NoCall EXCEPT !.op = "eval", !.tagName = tagName, !.version = <<version>>,
                                    !.update = update,
                                    !.asked = Range(Asked(tracked, failing)), !.threw = threw,
                                    !.log = IF update
                                            THEN UpdateLog(RegistryGet(map, tagName),
                                                           ElementClass, failing)
                                            ELSE <<>>]
    /\ UNCHANGED <<invalidated, rewriterVars>>

\* import.meta.hot.accept's callback: the host runs it in the continuation of
\* the re-evaluation, before any other event is handled. call.op names the
\* branch the callback took (index.ts 316 / 322).
Accept(unit) ==
    /\ unit \in pendingAccept
    /\ pendingAccept' = pendingAccept \ {unit}
    /\ NEEDS_RELOAD' = AcceptFlags(Flags(NEEDS_RELOAD, RELOAD_REASON)).needsReload
    /\ RELOAD_REASON' = AcceptFlags(Flags(NEEDS_RELOAD, RELOAD_REASON)).reason
    /\ invalidated' = invalidated + AcceptInvalidations(Flags(NEEDS_RELOAD, RELOAD_REASON))
    /\ call' = [NoCall EXCEPT !.op = IF NEEDS_RELOAD THEN "invalidate" ELSE "accept"]
    /\ UNCHANGED <<LIT_HMR_REGISTRY, litHmrDefine, propsAndState, customElements, elements,
                   hot, evals, rewriterVars>>

\* document.createElement(tagName) / the parser upgrading a tag.
Construct(tagName) ==
    /\ pendingAccept = {}
    /\ Len(elements) + 1 \in ElementIds
    /\ customElements[tagName] > 0
    /\ RegistryHas(TheMap, tagName)
    /\ LET record == RegistryGet(TheMap, tagName)
           e == Len(elements) + 1
       IN /\ elements' = Append(elements, ConstructedElement(record))
          /\ LIT_HMR_REGISTRY' =
                <<[LIT_HMR_REGISTRY[1] EXCEPT !.map =
                    RegistrySet(TheMap, [record EXCEPT !.instances = SetAdd(@, e)])]>>
          /\ call' = NoCall
    /\ UNCHANGED <<litHmrDefine, propsAndState, customElements, NEEDS_RELOAD, RELOAD_REASON,
                   invalidated, hot, pendingAccept, evals, rewriterVars>>

\* The element is removed from the document.
Teardown(e) ==
    /\ pendingAccept = {}
    /\ e \in 1..Len(elements)
    /\ ~elements[e].torn
    /\ RegistryHas(TheMap, elements[e].tagName)
    /\ LET record == RegistryGet(TheMap, elements[e].tagName)
       IN LIT_HMR_REGISTRY' =
            <<[LIT_HMR_REGISTRY[1] EXCEPT !.map = RegistrySet(TheMap, DisconnectedCallback(record, e))]>>
    /\ elements' = [elements EXCEPT ![e].torn = TRUE]
    /\ call' = NoCall
    /\ UNCHANGED <<litHmrDefine, propsAndState, customElements, NEEDS_RELOAD, RELOAD_REASON,
                   invalidated, hot, pendingAccept, evals, rewriterVars>>

\* A user interaction (a click handler) writes the reactive field count.
UserSet(e, value) ==
    /\ pendingAccept = {}
    /\ e \in 1..Len(elements)
    /\ ~elements[e].torn
    /\ ~elements[e].touched
    /\ elements' = [elements EXCEPT ![e].values["count"] = value, ![e].touched = TRUE]
    /\ call' = NoCall
    /\ UNCHANGED <<LIT_HMR_REGISTRY, litHmrDefine, propsAndState, customElements,
                   NEEDS_RELOAD, RELOAD_REASON, invalidated, hot, pendingAccept, evals,
                   rewriterVars>>

Next ==
    \/ \E unit \in Units : \E version \in VersionsOf(unit) :
          \E failing \in {{}} \cup {{e} : e \in ElementIds} : EvalUnit(unit, version, failing)
    \/ \E unit \in Units : Accept(unit)
    \/ \E tagName \in TagNames : Construct(tagName)
    \/ \E e \in ElementIds : Teardown(e)
    \/ \E e \in ElementIds : \E value \in UserValues : UserSet(e, value)

Spec == Init /\ [][Next]_vars

\* The same runtime, the unit edited through PatchVersions.
NextPatch ==
    \/ \E unit \in Units : \E version \in PatchVersionsOf(unit) :
          \E failing \in {{}} \cup {{e} : e \in ElementIds} : EvalUnit(unit, version, failing)
    \/ \E unit \in Units : Accept(unit)
    \/ \E tagName \in TagNames : Construct(tagName)
    \/ \E e \in ElementIds : Teardown(e)
    \/ \E e \in ElementIds : \E value \in UserValues : UserSet(e, value)

SpecPatch == Init /\ [][NextPatch]_vars

\* The demo's two units as they are: CounterElement declares
\* "accessor count = 0" (counter-element.ts 19-20), CustomCounter extends it
\* and declares "accessor count = 999" and its own render
\* (custom-counter.ts 10-15), so count and render are own keys of
\* CustomCounter.prototype. Each unit is edited in its render body.
Count0 == Field("property", "element", "count", FALSE, << <<"0">> >>)
Count999 == Field("property", "element", "count", FALSE, << <<"9", "9", "9">> >>)
CounterElement ==
    { Version("render1", FALSE, "ctor1", {}, <<Count0>>),
      Version("render2", FALSE, "ctor1", {}, <<Count0>>) }
CustomCounter ==
    { Version("render1", FALSE, "ctor1", {}, <<Count999>>),
      Version("render2", FALSE, "ctor1", {}, <<Count999>>) }
DemoVersionsOf(unit) == IF unit = "counter-element.ts" THEN CounterElement ELSE CustomCounter

\* The runtime on the demo's base class and subclass.
NextSubclass ==
    \/ \E unit \in Units : \E version \in DemoVersionsOf(unit) :
          \E failing \in {{}} \cup {{e} : e \in ElementIds} : EvalUnit(unit, version, failing)
    \/ \E unit \in Units : Accept(unit)
    \/ \E tagName \in TagNames : Construct(tagName)
    \/ \E e \in ElementIds : Teardown(e)
    \/ \E e \in ElementIds : \E value \in UserValues : UserSet(e, value)

SpecSubclass == Init /\ [][NextSubclass]_vars

\* The element is inserted into the document again. HmrProxyElement declares
\* a constructor and a disconnectedCallback only (index.ts 83-95): the
\* connectedCallback that runs is the inherited one, which does not touch
\* record.instances.
Reattach(e) ==
    /\ pendingAccept = {}
    /\ e \in 1..Len(elements)
    /\ elements[e].torn
    /\ ~elements[e].reattached
    /\ elements' = [elements EXCEPT ![e].torn = FALSE, ![e].reattached = TRUE]
    /\ call' = NoCall
    /\ UNCHANGED <<LIT_HMR_REGISTRY, litHmrDefine, propsAndState, customElements,
                   NEEDS_RELOAD, RELOAD_REASON, invalidated, hot, pendingAccept, evals,
                   rewriterVars>>

\* The runtime with elements that are moved in the document.
NextReattach ==
    \/ \E unit \in Units : \E version \in PatchVersionsOf(unit) :
          \E failing \in {{}} \cup {{e} : e \in ElementIds} : EvalUnit(unit, version, failing)
    \/ \E unit \in Units : Accept(unit)
    \/ \E tagName \in TagNames : Construct(tagName)
    \/ \E e \in ElementIds : Teardown(e)
    \/ \E e \in ElementIds : \E value \in UserValues : UserSet(e, value)
    \/ \E e \in ElementIds : Reattach(e)

SpecReattach == Init /\ [][NextReattach]_vars

\* One call of litHmr.transform by the dev server.
Transform(code, id) ==
    /\ LET r == LitHmrTransform(code, id, DEFINE_RE, DECORATOR_RE)
       IN /\ DEFINE_RE' = r.DEFINE_RE
          /\ DECORATOR_RE' = r.DECORATOR_RE
          /\ transformed' = [plugin |-> "vite-plugin-lit-hmr", code |-> code, id |-> id,
                             result |-> r.result]
    /\ evaluated' = NotEvaluated
    /\ UNCHANGED runtimeVars

\* One call of litHmrPost.transform by the dev server.
PostTransform(code, id) ==
    /\ LET r == LitHmrPostTransform(code, id, DEFINE_RE, DECORATOR_RE)
       IN /\ DEFINE_RE' = r.DEFINE_RE
          /\ DECORATOR_RE' = r.DECORATOR_RE
          /\ transformed' = [plugin |-> "vite-plugin-lit-hmr-post", code |-> code, id |-> id,
                             result |-> r.result]
    /\ evaluated' = NotEvaluated
    /\ UNCHANGED runtimeVars

\* The browser loads the unit litHmrPost.transform has just returned.
EvaluateModule ==
    /\ transformed.plugin = "vite-plugin-lit-hmr-post"
    /\ transformed.result # <<>>
    /\ evaluated = NotEvaluated
    /\ evaluated' \in Evaluations(transformed.result[1])
    /\ UNCHANGED <<runtimeVars, DEFINE_RE, DECORATOR_RE, transformed>>

\* The plugin process: the dev server transforms its modules one call at a
\* time, in any order; the browser loads what the last plugin returned.
NextRewrite ==
    \/ \E code \in Codes : \E id \in Ids : Transform(code, id)
    \/ \E code \in PostCodes : \E id \in Ids : PostTransform(code, id)
    \/ EvaluateModule

SpecRewrite == Init /\ [][NextRewrite]_vars

\* The acceptance hook reads the two window flags; no line of the runtime
\* assigns them. SpecHook draws them, as the hook's inputs, from both cases.
InitHook ==
    /\ LIT_HMR_REGISTRY = <<>>
    /\ litHmrDefine = <<>>
    /\ propsAndState = <<>>
    /\ customElements = [t \in TagNames |-> 0]
    /\ elements = <<>>
    /\ \E flags \in {Flags(FALSE, ""), Flags(TRUE, "Observed attributes changed: +label")} :
          /\ NEEDS_RELOAD = flags.needsReload
          /\ RELOAD_REASON = flags.reason
    /\ invalidated = 0
    /\ hot = {}
    /\ pendingAccept = {}
    /\ evals = 0
    /\ call = NoCall
    /\ DEFINE_RE = 0
    /\ DECORATOR_RE = 0
    /\ transformed = NoTransform
    /\ evaluated = NotEvaluated

SpecHook == InitHook /\ [][Next]_vars

\* The hook on the demo's two units.
SpecDemoHook == InitHook /\ [][NextSubclass]_vars

(***************************************************************************)
(* Claims                                                                  *)
(***************************************************************************)
IsUpdate == call.op = "eval" /\ call.update
Tracked(tagName) ==
    IF RegistryHas(TheMap, tagName) THEN Range(RegistryGet(TheMap, tagName).instances) ELSE {}
ElementsOf(tagName) == { e \in 1..Len(elements) : elements[e].tagName = tagName }

\* C1 Single bind: for every registration name, the platform registry has
\* received exactly one customElements.define call once the name has a
\* Registration Record (the first call made it), none before, and no later
\* call of __litHmrDefine adds another.
C1_SingleBind ==
    \A tagName \in TagNames :
        customElements[tagName] = IF RegistryHas(TheMap, tagName) THEN 1 ELSE 0

\* A name that was registered and then updated twice.
C1_Witness ==
    /\ IsUpdate
    /\ evals = 3
    /\ customElements[call.tagName] = 1
    /\ \E unit \in Units : hot = {unit}

\* C2 Instance retention (as claimed): after an update of a name, every
\* element of that name that has not been torn down is a member of the
\* record's instance set and was sent a re-render request by that update.
C2_InstanceRetention ==
    IsUpdate =>
        \A e \in ElementsOf(call.tagName) :
            ~elements[e].torn => e \in Tracked(call.tagName) /\ e \in call.asked

\* C3 Teardown removal (as claimed): an element that was torn down is not a
\* member of its record's instance set and no update sends it a re-render
\* request, whatever own prototype properties the delegates declare.
C3_TeardownRemoval ==
    \A e \in 1..Len(elements) :
        elements[e].torn =>
            /\ e \notin Tracked(elements[e].tagName)
            /\ e \notin call.asked

\* C4 State preservation (as claimed): a value that user interaction gave a
\* reactive field of a live element is still the field's value after any
\* number of unit evaluations (registration call and finalize step).
C4_StatePreserved ==
    \A e \in 1..Len(elements) :
        (elements[e].touched /\ ~elements[e].torn) => elements[e].values["count"] \in UserValues

DeclaresCount42(version) ==
    \E k \in 1..Len(version.fields) :
        /\ version.fields[k].owner = "element"
        /\ version.fields[k].name = "count"
        /\ version.fields[k].init = <<Lit42>>

DeclaresCount42Untyped(version) ==
    \E k \in 1..Len(version.fields) :
        /\ version.fields[k].owner = "element"
        /\ version.fields[k].name = "count"
        /\ version.fields[k].init = <<Lit42>>
        /\ ~version.fields[k].typed
        /\ \A j \in 1..(k - 1) : version.fields[j].name # "count"

Captured42 ==
    \E n \in 1..Len(propsAndState) :
        /\ propsAndState[n] = [type |-> "number", name |-> "count", value |-> JsNumber(42)]
        /\ \A m \in 1..(n - 1) : propsAndState[m].name # "count"

Unmodified42(tagName) ==
    \A e \in ElementsOf(tagName) :
        (~elements[e].torn /\ ~elements[e].touched) => elements[e].values["count"] = JsNumber(42)

UpdateStep == call'.op = "eval" /\ call'.update
RecordBefore == RegistryGet(TheMap, call'.tagName)
RecordAfter == RegistryGet(TheMap', call'.tagName)
ClassPassed == ElementClassOf(call'.version[1])

\* The three axes of the compatibility check, as the specification states
\* them: constructor logic, reactive schema, observed attributes.
ConstructionChanged(old, new) == old.ctor # new.ctor
SchemaChanged(old, new) == old.elementProperties # new.elementProperties
ObservedAttributesChanged(old, new) == old.observedAttributes # new.observedAttributes
AxisChanged(old, new) ==
    ConstructionChanged(old, new) \/ SchemaChanged(old, new) \/ ObservedAttributesChanged(old, new)

\* The two classes declare the same members and differ at most in the
\* bodies of their methods.
OnlyBodiesDiffer(old, new) ==
    /\ ~AxisChanged(old, new)
    /\ PrototypeKeys(old) = PrototypeKeys(new)

\* C6 No false escalation (as claimed): a later registration call whose new
\* delegate differs from the old one only in method bodies leaves the
\* escalation flag unset, leaves every non-accessor member of the new
\* delegate on the proxy prototype, and asks every tracked instance to
\* re-render.
C6_NoFalseEscalation ==
    [][ (UpdateStep /\ OnlyBodiesDiffer(RecordBefore.elementClass, ClassPassed)) =>
            /\ ~NEEDS_RELOAD'
            /\ \A key \in PatchedKeys(PrototypeOf(ClassPassed)) :
                  /\ key \in DOMAIN RecordAfter.proxyClass.prototype
                  /\ RecordAfter.proxyClass.prototype[key] = PrototypeOf(ClassPassed)[key]
            /\ Range(RecordBefore.instances) \subseteq call'.asked ]_vars

\* C7 Observed-attribute escalation (as claimed): a later registration call
\* whose new delegate declares another observed-attribute list than the old
\* one sets the escalation flag and a reason.
C7_ObservedAttributeEscalation ==
    [][ (UpdateStep /\ ObservedAttributesChanged(RecordBefore.elementClass, ClassPassed)) =>
            (NEEDS_RELOAD' /\ RELOAD_REASON' # "") ]_vars

\* C8 Non-patchable update frame (as claimed): a later registration call for
\* which an axis reports a change leaves the proxy class and its prototype
\* as they were and asks no instance to re-render.
C8_NonPatchableFrame ==
    [][ (UpdateStep /\ AxisChanged(RecordBefore.elementClass, ClassPassed)) =>
            /\ RecordAfter.proxyClass = RecordBefore.proxyClass
            /\ call'.asked = {} ]_vars

\* C9 Escalation is carried out (as claimed): the acceptance hook requests
\* one full reload from the host when it runs with the escalation flag set,
\* and none when the flag is not set.
C9_EscalationCarriedOut ==
    [][ (pendingAccept # {} /\ pendingAccept' = {}) =>
            invalidated' = invalidated + (IF NEEDS_RELOAD THEN 1 ELSE 0) ]_vars

\* C10 Idempotent bootstrap: after any number of bootstrap evaluations, of
\* any units in any order, the registry map and the entry point are the
\* ones the first evaluation created, and the map still holds the record of
\* every unit that was evaluated.
C10_IdempotentBootstrap ==
    evals > 0 =>
        /\ LIT_HMR_REGISTRY # <<>>
        /\ LIT_HMR_REGISTRY[1].id = 1
        /\ litHmrDefine = <<1>>
        /\ \A unit \in hot : RegistryHas(TheMap, TagNameOf(unit))

\* Both units evaluated, one of them again, the records of both in place.
C10_Witness ==
    /\ evals = 3
    /\ hot = Units
    /\ LIT_HMR_REGISTRY[1].id = 1
    /\ Len(TheMap) = 2

\* C11 Constructor changes reach new instances (as claimed): no step re-runs
\* a constructor on an element that exists, and an element constructed when
\* the record's delegate is V2 has run V2's constructor logic.
C11_ConstructorReachesNewInstances ==
    [][ /\ \A e \in 1..Len(elements) : elements'[e].ctor = elements[e].ctor
        /\ Len(elements') > Len(elements) =>
              elements'[Len(elements')].ctor =
                  RegistryGet(TheMap, elements'[Len(elements')].tagName).elementClass.ctor ]_vars

\* C12 Statics are swapped (as claimed): after a patchable update, every
\* static member read on the proxy class (styles, reactive-property
\* metadata, observed attributes) is the new delegate's.
C12_StaticsSwapped ==
    [][ (UpdateStep /\ ~AxisChanged(RecordBefore.elementClass, ClassPassed)) =>
            ProxyStatics(RecordAfter.proxyClass) = StaticsOf(ClassPassed) ]_vars

\* The events of the last call's log, by kind.
DefineEvents(log) == { n \in 1..Len(log) : log[n].op = "defineProperty" }
RequestUpdateEvents(log) == { n \in 1..Len(log) : log[n].op = "requestUpdate" }
KeyFailed(log) == \E n \in DefineEvents(log) : ~log[n].ok
Raised(log) == \E n \in RequestUpdateEvents(log) : ~log[n].ok

\* C17 Patch copy rule: in an update, for every own key of the new
\* delegate's prototype other than the constructor slot, a data descriptor
\* is passed to defineProperty exactly once and, unless that call fails, is
\* the proxy prototype's descriptor afterwards; an accessor descriptor is
\* never passed and the proxy prototype is left as it was at that key. The
\* constructor slot of the proxy is left as it was.
C17_PatchCopyRule ==
    [][ UpdateStep =>
          LET old == RecordBefore.proxyClass.prototype
              new == PrototypeOf(ClassPassed)
              after == RecordAfter.proxyClass.prototype
              copies(key) == { n \in DefineEvents(call'.log) : call'.log[n].key = key }
          IN /\ after["constructor"] = old["constructor"]
             /\ copies("constructor") = {}
             /\ \A key \in DOMAIN new \ {"constructor"} :
                   IF new[key].get \/ new[key].set
                   THEN /\ copies(key) = {}
                        /\ (key \in DOMAIN after) = (key \in DOMAIN old)
                        /\ key \in DOMAIN old => after[key] = old[key]
                   ELSE /\ Cardinality(copies(key)) = 1
                        /\ key \in DOMAIN after
                        /\ \A n \in copies(key) :
                              call'.log[n].ok => after[key] = new[key] ]_vars

\* An update that copied the edited render and the symbol-keyed property of
\* the new delegate and left the accessor count off the proxy prototype.
C17_Witness ==
    /\ IsUpdate
    /\ call.version[1].locked
    /\ LET proto == RegistryGet(TheMap, call.tagName).proxyClass.prototype
       IN /\ SymbolKey \in DOMAIN proto
          /\ proto[SymbolKey].value.home = "delegate"
          /\ proto["render"].value.home = "delegate"
          /\ "count" \notin DOMAIN proto

\* C18 Patch before propagate: in the log of one update, every key the new
\* delegate's prototype holds as a data property (constructor slot apart)
\* has its defineProperty before the first requestUpdate, and no
\* defineProperty comes after a requestUpdate.
C18_PatchBeforePropagate ==
    IsUpdate =>
        /\ \A d \in DefineEvents(call.log) : \A r \in RequestUpdateEvents(call.log) : d < r
        /\ RequestUpdateEvents(call.log) # {} =>
              \A key \in DOMAIN PrototypeOf(ElementClassOf(call.version[1])) \ {"constructor"} :
                  LET desc == PrototypeOf(ElementClassOf(call.version[1]))[key]
                  IN ~(desc.get \/ desc.set) =>
                        \E d \in DefineEvents(call.log) : call.log[d].key = key

\* An update that copied two keys and then asked two instances.
C18_Witness ==
    /\ IsUpdate
    /\ Cardinality(DefineEvents(call.log)) >= 2
    /\ Cardinality(RequestUpdateEvents(call.log)) = 2

\* C19 Instance-propagation failure isolation (as claimed): when the
\* requestUpdate of a tracked instance raises during an update, the error
\* does not leave __litHmrDefine, every tracked instance is asked, and the
\* record's delegate is the class passed.
C19_PropagationIsolation ==
    (IsUpdate /\ Raised(call.log)) =>
        /\ ~call.threw
        /\ Tracked(call.tagName) \subseteq call.asked
        /\ RegistryGet(TheMap, call.tagName).elementClass = ElementClassOf(call.version[1])

\* C20 Patch-key failure isolation (as claimed): when defineProperty fails
\* for a key during an update, every other data key of the new delegate is
\* on the proxy prototype, every tracked instance is asked and the record's
\* delegate is the class passed.
C20_PatchKeyIsolation ==
    (IsUpdate /\ KeyFailed(call.log)) =>
        /\ \A n \in DefineEvents(call.log) :
              call.log[n].ok =>
                  RegistryGet(TheMap, call.tagName).proxyClass.prototype[call.log[n].key]
                      = PrototypeOf(ElementClassOf(call.version[1]))[call.log[n].key]
        /\ Tracked(call.tagName) \subseteq call.asked
        /\ RegistryGet(TheMap, call.tagName).elementClass = ElementClassOf(call.version[1])

\* The same when no requestUpdate raises.
C20_PatchKeyIsolationNoRaise ==
    (IsUpdate /\ KeyFailed(call.log) /\ ~Raised(call.log)) =>
        /\ \A n \in DefineEvents(call.log) :
              call.log[n].ok =>
                  RegistryGet(TheMap, call.tagName).proxyClass.prototype[call.log[n].key]
                      = PrototypeOf(ElementClassOf(call.version[1]))[call.log[n].key]
        /\ Tracked(call.tagName) \subseteq call.asked
        /\ RegistryGet(TheMap, call.tagName).elementClass = ElementClassOf(call.version[1])

\* The last call was one of litHmr.transform / litHmrPost.transform.
PreCall == transformed.plugin = "vite-plugin-lit-hmr"
PostCall == transformed.plugin = "vite-plugin-lit-hmr-post"

\* C13 Rewrite purity (as claimed): whatever calls came before, a transform
\* call returns what the same call returns in a fresh plugin process.
C13_RewritePurity ==
    /\ PreCall => transformed.result
                     = LitHmrTransform(transformed.code, transformed.id, 0, 0).result
    /\ PostCall => transformed.result
                      = LitHmrPostTransform(transformed.code, transformed.id, 0, 0).result

\* The rewritten text without what the rewriter added around and between
\* the unit's own tokens, and the number of the unit's tokens before p.
OwnKind(token) == token.kind \notin {"runtime", "hmrCode", "statement"}
Source(out) == SelectSeq(out, OwnKind)
Before(out, p) == Len(SelectSeq(SubSeq(out, 1, p - 1), OwnKind))
Statements(out, tag) == { p \in 1..Len(out) : out[p].kind = "statement" /\ out[p].tag = tag }

\* The class a decorator annotates: the next class of the text, exported or
\* not; and the offset after the brace that closes its body, counting the
\* braces of the program (not those inside string literals).
DecoratedClass(code, d) ==
    LET hits == { k \in Matches(code, {"export class", "class"}) : k > d }
    IN IF hits = {} THEN 0 ELSE Least(hits)

RECURSIVE StructuralScan(_, _, _)
StructuralScan(code, pos, depth) ==
    IF depth = 0 THEN pos
    ELSE IF pos >= Len(code) THEN 0
    ELSE StructuralScan(code, pos + 1,
              IF code[pos + 1].kind = "{" THEN depth + 1
              ELSE IF code[pos + 1].kind = "}" THEN depth - 1
              ELSE depth)

ClosingBrace(code, cls) ==
    LET hits == { j \in Matches(code, {"{"}) : j > cls }
    IN IF hits = {} THEN 0 ELSE StructuralScan(code, Least(hits), 1)

\* C14 Decorator rewrite (as claimed): in a rewritten unit, for each
\* decorator whose class has a closing brace, the decorator is replaced by
\* the marker and the text holds one registration statement for the
\* decorator's name; it names the decorated class and stands immediately
\* after that class's closing brace.
C14_DecoratorRewrite ==
    (PreCall /\ transformed.result # <<>>) =>
        LET code == transformed.code
            out == transformed.result[1]
        IN \A d \in Matches(code, {"decorator"}) :
              LET cls == DecoratedClass(code, d)
              IN (cls # 0 /\ ClosingBrace(code, cls) # 0) =>
                    /\ Source(out)[d] = Marker(code[d].tag)
                    /\ Cardinality(Statements(out, code[d].tag)) = 1
                    /\ \A p \in Statements(out, code[d].tag) :
                          /\ out[p].cls = code[cls].cls
                          /\ Before(out, p) = ClosingBrace(code, cls)

\* The decorator match at d found its class and the brace scan for it ran
\* off the end of the unit.
ScanRanOff(code, d) ==
    /\ ClassMatch(code, d) # 0
    /\ ClassBodyStart(code, ClassMatch(code, d)) # 0
    /\ Scan(code, ClassBodyStart(code, ClassMatch(code, d)), 1) = 0

ScanBalanced(code, d) ==
    /\ ClassMatch(code, d) # 0
    /\ ClassBodyStart(code, ClassMatch(code, d)) # 0
    /\ Scan(code, ClassBodyStart(code, ClassMatch(code, d)), 1) # 0

C16_RewriterNoOp ==
    (PreCall /\ Matches(transformed.code, DefineKinds \cup DecoratorKinds) = {}) =>
        transformed.result = <<>>

\* A unit that imports lit and registers nothing, returned as null.
C16_Witness ==
    /\ PreCall
    /\ transformed.id = UnitId
    /\ Matches(transformed.code, {"import"}) # {}
    /\ Matches(transformed.code, DefineKinds \cup DecoratorKinds) = {}
    /\ transformed.result = <<>>

\* C21 Delegate tracking: after a registration call for a registered name
\* has returned, the record's delegate reference is the class passed to
\* that call.
C21_DelegateTracking ==
    (IsUpdate /\ ~call.threw) =>
        RegistryGet(TheMap, call.tagName).elementClass = ElementClassOf(call.version[1])

\* An update that returned and stored a class other than the one the proxy
\* extends.
C21_Witness ==
    /\ IsUpdate /\ ~call.threw
    /\ RegistryGet(TheMap, call.tagName).elementClass = ElementClassOf(call.version[1])
    /\ RegistryGet(TheMap, call.tagName).elementClass
          # RegistryGet(TheMap, call.tagName).proxyClass.extends

\* C22 Instance-set membership: every member of a record's instance set is
\* an element constructed for that record's name; a step adds a member only
\* by constructing it and removes one only by tearing it down.
C22_InstanceSetMembership ==
    [][ \A tagName \in TagNames :
          /\ \A e \in Tracked(tagName)' :
                e \in 1..Len(elements') /\ elements'[e].tagName = tagName
          /\ \A e \in Tracked(tagName)' \ Tracked(tagName) :
                e = Len(elements') /\ Len(elements') = Len(elements) + 1
          /\ \A e \in Tracked(tagName) \ Tracked(tagName)' :
                elements'[e].torn /\ ~elements[e].torn ]_vars

\* An update of a name that has a tracked element and a torn-down element
\* that left the set.
C22_Witness ==
    /\ IsUpdate
    /\ \E e \in ElementsOf(call.tagName) : e \in Tracked(call.tagName)
    /\ \E e \in ElementsOf(call.tagName) : elements[e].torn /\ e \notin Tracked(call.tagName)

\* C26 Names are independent: a registration call for a name leaves the
\* record of every other name as it was and asks no element of another name
\* to re-render.
C26_NamesIndependent ==
    [][ call'.op = "eval" =>
          \A tagName \in TagNames \ {call'.tagName} :
              /\ RegistryHas(TheMap', tagName) = RegistryHas(TheMap, tagName)
              /\ RegistryHas(TheMap, tagName) =>
                    RegistryGet(TheMap', tagName) = RegistryGet(TheMap, tagName)
              /\ call'.asked \cap ElementsOf(tagName) = {} ]_vars

\* An update of one name while another name has a tracked element.
C26_Witness ==
    /\ IsUpdate
    /\ \E tagName \in TagNames \ {call.tagName} : Tracked(tagName) # {}
    /\ Tracked(call.tagName) # {}

\* C24 Flags are consumed once: when the acceptance hook runs with the
\* escalation flag set it takes the escalation branch and leaves the flag
\* false and the reason empty; when it runs with the flag not set it takes
\* the "accepted" branch and leaves both flags as they were; so an
\* acceptance after a consumed flag, with no escalation in between, takes
\* the "accepted" branch.
C24_FlagsConsumedOnce ==
    [][ (pendingAccept # {} /\ pendingAccept' = {}) =>
          IF NEEDS_RELOAD
          THEN call'.op = "invalidate" /\ ~NEEDS_RELOAD' /\ RELOAD_REASON' = ""
          ELSE /\ call'.op = "accept"
               /\ NEEDS_RELOAD' = NEEDS_RELOAD
               /\ RELOAD_REASON' = RELOAD_REASON ]_vars

\* The hook has just run with the flag set.
C24_Witness ==
    call.op = "invalidate" /\ ~NEEDS_RELOAD /\ RELOAD_REASON = ""

\* Property lookup on an instance of a delegate class: the class's own
\* prototype, then what it inherits from LitElement.
Inherited(key) == [fn |-> key, home |-> "LitElement"]
ResolveDelegate(cls, key) ==
    IF key \in PrototypeKeys(cls) THEN PrototypeOf(cls)[key].value ELSE Inherited(key)

\* Property lookup on a proxy instance: the proxy prototype's own key, then
\* the prototype of the class the proxy extends. The proxy's own
\* disconnectedCallback forwards to super.disconnectedCallback().
ResolveProxy(proxyClass, key) ==
    IF key \in DOMAIN proxyClass.prototype /\ proxyClass.prototype[key].value.home # "proxy"
    THEN proxyClass.prototype[key].value
    ELSE ResolveDelegate(proxyClass.extends, key)

\* The keys of the claim: neither accessors nor the constructor slot.
BehaviourKeys == {"render", "disconnectedCallback", SymbolKey}

\* C29 Proxy behaviour equals the latest delegate (as claimed): after a
\* patchable update that returned, every non-accessor, non-constructor key
\* resolves on a proxy instance as it resolves on the delegate passed to
\* that update.
C29_ProxyEqualsLatestDelegate ==
    [][ (UpdateStep /\ ~call'.threw /\ ~AxisChanged(RecordBefore.elementClass, ClassPassed)) =>
            \A key \in BehaviourKeys :
                ResolveProxy(RecordAfter.proxyClass, key) = ResolveDelegate(ClassPassed, key) ]_vars

\* C28 Re-attached instances stay tracked (as claimed): an element that was
\* torn down and attached again is, while attached, a member of its
\* record's instance set, and is asked to re-render by every update of its
\* name in which no earlier request raised.
C28_ReattachedStayTracked ==
    \A e \in 1..Len(elements) :
        (elements[e].reattached /\ ~elements[e].torn) =>
            /\ e \in Tracked(elements[e].tagName)
            /\ (IsUpdate /\ call.tagName = elements[e].tagName /\ ~call.threw) =>
                    e \in call.asked

\* C25 Subclass override is kept: no live custom-counter element, whose
\* class declares count = 999 over the base class's count = 0, has its
\* count set to the base class's default by an update of either unit.
C25_SubclassOverrideKept ==
    \A e \in ElementsOf("custom-counter") :
        ~elements[e].torn => elements[e].values["count"] # JsNumber(0)

\* An update of the base unit has written the base default to a tracked
\* counter-element while a custom-counter element is live and tracked.
C25_Witness ==
    /\ IsUpdate /\ call.tagName = "counter-element" /\ ~call.threw
    /\ \E e \in Tracked("counter-element") :
          elements[e].touched /\ elements[e].values["count"] = JsNumber(0)
    /\ \E e \in Tracked("custom-counter") :
          ~elements[e].torn /\ elements[e].values["count"] = JsNumber(999)

\* The runtime-entry-point invocations of a rewritten unit for a name.
Invocations(out, tag) ==
    { p \in 1..Len(out) : out[p].kind \in {"call", "statement"} /\ out[p].tag = tag }

\* C27 No registration is lost by the rewrite (as claimed): in a rewritten
\* unit, for every decorator that was replaced by the marker, the text
\* holds exactly one runtime-entry-point invocation for the decorator's
\* name and it references the class the decorator annotates.
C27_NoRegistrationLost ==
    (PreCall /\ transformed.result # <<>>) =>
        LET code == transformed.code
            out == transformed.result[1]
        IN \A d \in Matches(code, {"decorator"}) :
              Source(out)[d] = Marker(code[d].tag) =>
                  /\ DecoratedClass(code, d) # 0
                  /\ Cardinality(Invocations(out, code[d].tag)) = 1
                  /\ \A p \in Invocations(out, code[d].tag) :
                        out[p].cls = code[DecoratedClass(code, d)].cls

\* The registration names recovered from a unit handed to the Secondary
\* Rewriter: the names of its runtime-entry-point invocations.
RecoveredNames(code) ==
    { code[p].tag : p \in { p \in 1..Len(code) : code[p].kind \in {"call", "statement"} } }
Count(seq, x) == Cardinality({ n \in 1..Len(seq) : seq[n] = x })

\* C23 Finalize once per name (as claimed): a unit with runtime-entry-point
\* invocations comes back from the Secondary Rewriter with exactly one
\* finalize-patch snippet per recovered name, and when the unit has been
\* loaded the finalize step has run exactly once for each of those names.
C23_FinalizeOncePerName ==
    (PostCall /\ transformed.result # <<>>) =>
        LET names == RecoveredNames(transformed.code)
            out == transformed.result[1]
        IN /\ \A tag \in names : Count(Snippets(out), tag) = 1
           /\ Range(Snippets(out)) = names
           /\ evaluated # NotEvaluated =>
                 /\ evaluated.module = "evaluated"
                 /\ \A tag \in names : Count(evaluated.finalized, tag) = 1
                 /\ Range(evaluated.finalized) = names

\* The part of C23 about the rewriter's text alone: one snippet per name.
C23_OneSnippetPerName ==
    (PostCall /\ transformed.result # <<>>) =>
        /\ \A tag \in RecoveredNames(transformed.code) :
              Count(Snippets(transformed.result[1]), tag) = 1
        /\ Range(Snippets(transformed.result[1])) = RecoveredNames(transformed.code)

====
